---- MODULE Spec2Model ----
(***************************************************************************)
(* Athlete resource controller (workout_api/atleta/controller.py).         *)
(*                                                                         *)
(* The committed content of the "atletas" table is the state.  create,     *)
(* get and list touch the table in one statement and are one action each;  *)
(* update and delete first SELECT the row and later COMMIT their write,    *)
(* with an await in between, so each is two actions and other requests     *)
(* may run between them.  The INSERT and its COMMIT are one step: until    *)
(* the COMMIT no other transaction sees the row.  An UPDATE writes the     *)
(* fields of the payload onto the row as committed at that moment.         *)
(***************************************************************************)
EXTENDS Integers, Sequences, FiniteSets, TLC

VARIABLES
    atletas,   \* pk_id -> committed row of the atletas table
    nextId,    \* next value of the pk_id sequence
    clock,     \* the server's clock, read by datetime.now() and later at each create
    tasks,     \* per request task: idle, or an update/delete between SELECT and COMMIT
    last       \* the request answered by the latest step and its response

vars == <<atletas, nextId, clock, tasks, last>>

\* ---------------------------------------------------------------- bounds
MaxId == 2                     \* pk_id values the sequence hands out

\* ------------------------------------------------------- reference data
Tasks == {"t1", "t2"}

Categorias == {[pk_id |-> 1, nome |-> "Scale"], [pk_id |-> 2, nome |-> "RX"]}
CentrosTreinamento == {[pk_id |-> 1, nome |-> "CT King"]}

CategoriaNomes == {"Scale", "RX", "Elite"}      \* "Elite" has no row
CentroNomes == {"CT King", "CT Zero"}           \* "CT Zero" has no row

Nomes == {<<"A", "n">>, <<"b">>}                \* athlete names, as characters
CPFs == {"11122233344", "55566677788"}
ClientTs == {99}                                \* a created_at sent by a client

\* an optional value: {} when absent, {v} when present
Opt(S) == {{}} \cup {{v} : v \in S}
Val(o) == CHOOSE v \in o : TRUE

\* POST bodies.  created_at is an extra key a client may send.
AtletaIn ==
    [nome : Nomes, cpf : CPFs, categoria : CategoriaNomes,
     centro_treinamento : CentroNomes, created_at : ClientTs]

\* PATCH bodies: every field optional; a field is "set" when present
\* (categoria_id 2 is the key of "RX"; no category has the key 9)
AtletaUpdate ==
    [nome : Opt({<<"b">>}), cpf : Opt(CPFs), categoria_id : Opt({2, 9})]

NomeFilters == Opt({<<>>, <<"a", "N">>, <<"_">>})
CpfFilters == Opt(CPFs)

NoResponse == [op |-> "none"]
Idle == [pc |-> "idle"]

\* ------------------------------------------------------ table constraints
UniqueCpf(rows) ==
    \A i, j \in DOMAIN rows : i # j => rows[i].cpf # rows[j].cpf

ForeignKeysHold(rows) ==
    \A i \in DOMAIN rows :
        /\ \E c \in Categorias : c.pk_id = rows[i].categoria_id
        /\ \E c \in CentrosTreinamento : c.pk_id = rows[i].centro_treinamento_id

\* the flush/commit raises IntegrityError
IntegrityError(rows) == ~UniqueCpf(rows) \/ ~ForeignKeysHold(rows)

\* a lookup that forgets its filter
FindCategoriaUnfiltered(nome) == {CHOOSE c \in Categorias : TRUE}

\* ------------------------------------------------------------- helpers
\* select(CategoriaModel).filter_by(nome=...).scalars().first(): {} is None
FindCategoria(nome) ==
    LET found == {c \in Categorias : c.nome = nome}
    IN  IF found = {} THEN {} ELSE {CHOOSE c \in found : TRUE}

FindCentro(nome) ==
    LET found == {c \in CentrosTreinamento : c.nome = nome}
    IN  IF found = {} THEN {} ELSE {CHOOSE c \in found : TRUE}

\* select(AtletaModel).filter_by(pk_id=id).scalars().first()
FindAtleta(rows, id) == IF id \in DOMAIN rows THEN {rows[id]} ELSE {}

\* a row whose category key is copied from the training center
NewAtletaCentroAsCategoria(body, now, categoria, centro) ==
    [nome |-> body.nome,
     cpf |-> body.cpf,
     created_at |-> now,
     categoria_id |-> centro.pk_id,
     centro_treinamento_id |-> centro.pk_id]

\* a row that takes created_at from the request body
NewAtletaClientTimestamp(body, now, categoria, centro) ==
    [nome |-> body.nome,
     cpf |-> body.cpf,
     created_at |-> body.created_at,
     categoria_id |-> categoria.pk_id,
     centro_treinamento_id |-> centro.pk_id]

\* AtletaModel(**atleta_in.model_dump(exclude={...}), created_at=datetime.now(),
\*             categoria_id=categoria.pk_id, centro_treinamento_id=centro_treinamento.pk_id)
\* body.created_at is no field of the model_dump and is not read
NewAtleta(body, now, categoria, centro) ==
    [nome |-> body.nome,
     cpf |-> body.cpf,
     created_at |-> now,
     categoria_id |-> categoria.pk_id,
     centro_treinamento_id |-> centro.pk_id]

\* db_session.add(atleta_model); flush(): the table the transaction sees
AddRow(rows, id, row) ==
    [i \in DOMAIN rows \cup {id} |-> IF i = id THEN row ELSE rows[i]]

\* an update that skips the cpf key
SetAttrsSkipsCpf(row, data) ==
    [f \in DOMAIN row |->
        IF f \in DOMAIN data /\ f # "cpf" /\ data[f] # {} THEN Val(data[f]) ELSE row[f]]

\* for key, value in data.items(): setattr(atleta, key, value)
SetAttrs(row, data) ==
    [f \in DOMAIN row |->
        IF f \in DOMAIN data /\ data[f] # {} THEN Val(data[f]) ELSE row[f]]

\* a delete that is never written
DeleteRowKeeps(rows, id) == rows

\* db_session.delete(atleta); commit().  A DELETE whose row is already gone
\* matches nothing and is no error.
DeleteRow(rows, id) == [i \in DOMAIN rows \ {id} |-> rows[i]]

\* an error path that keeps the attempted write
RollbackKeepsWrite(committed, attempted) == attempted

\* db_session.rollback(): the committed table, without the attempted write
Rollback(committed, attempted) == committed

\* atleta_in.cpf in the 303 detail of post
PostConflictDetail(body) == body.cpf

\* a detail that reads a key the payload never has
PatchConflictDetailMissing(data) == "None"

\* data.get('cpf') in the 303 detail of patch
PatchConflictDetail(data) == IF data.cpf = {} THEN "None" ELSE Val(data.cpf)

\* DatabaseDependency: the request's session is closed when the handler
\* exits, and closing it rolls back a transaction left open
CloseSession(tx) == IF tx = "open" THEN "rolledback" ELSE tx

\* how a write handler leaves its transaction: tx is what the handler did,
\* session what the transaction is once the session is closed
Exit(tx) == [tx |-> tx, session |-> CloseSession(tx)]

\* AtletaOut.model_validate(atleta, from_attributes=True)
AtletaOut(id, row) == [pk_id |-> id, row |-> row]

\* ------------------------------------------------------------ requests
Respond(r) == last' = r

\* POST /
Post(body) ==
    /\ nextId <= MaxId          \* the model's bound on the pk_id sequence
    /\ LET categoria == FindCategoria(body.categoria)
           centro == FindCentro(body.centro_treinamento)
       IN  IF categoria = {} THEN
               /\ Respond([op |-> "post", body |-> body, status |-> 400,
                           detail |-> <<"categoria", body.categoria>>]
                          @@ Exit("open"))
               /\ UNCHANGED <<atletas, nextId, clock, tasks>>
           ELSE IF centro = {} THEN
               /\ Respond([op |-> "post", body |-> body, status |-> 400,
                           detail |-> <<"centro_treinamento", body.centro_treinamento>>]
                          @@ Exit("open"))
               /\ UNCHANGED <<atletas, nextId, clock, tasks>>
           ELSE
               LET row == NewAtleta(body, clock, Val(categoria), Val(centro))
                   attempted == AddRow(atletas, nextId, row)
               IN  IF IntegrityError(attempted) THEN
                       /\ atletas' = Rollback(atletas, attempted)
                       /\ Respond([op |-> "post", body |-> body, status |-> 303,
                                   detail |-> PostConflictDetail(body)]
                                  @@ Exit("rolledback"))
                       /\ UNCHANGED <<nextId, clock, tasks>>
                   ELSE
                       /\ atletas' = attempted
                       /\ nextId' = nextId + 1
                       /\ clock' = clock + 1
                       /\ Respond([op |-> "post", body |-> body, status |-> 201,
                                   out |-> AtletaOut(nextId, row)] @@ Exit("committed"))
                       /\ UNCHANGED tasks

\* lower() of one character, as ILIKE folds case
LowerChar(c) ==
    CASE c = "A" -> "a"
      [] c = "N" -> "n"
      [] c = "B" -> "b"
      [] OTHER -> c

Lower(s) == [i \in 1..Len(s) |-> LowerChar(s[i])]

\* SQL LIKE: % matches any run of characters, _ any one character
RECURSIVE Like(_, _)
Like(text, pattern) ==
    IF pattern = <<>> THEN text = <<>>
    ELSE IF Head(pattern) = "%" THEN
        \/ Like(text, Tail(pattern))
        \/ text # <<>> /\ Like(Tail(text), pattern)
    ELSE IF Head(pattern) = "_" THEN
        text # <<>> /\ Like(Tail(text), Tail(pattern))
    ELSE
        text # <<>> /\ Head(text) = Head(pattern) /\ Like(Tail(text), Tail(pattern))

\* AtletaModel.nome.ilike(pattern)
ILike(text, pattern) == Like(Lower(text), Lower(pattern))

\* the WHERE clauses of query(): "if nome:" and "if cpf:" skip None and ""
Selected(row, nome, cpf) ==
    /\ (nome # {} /\ Val(nome) # <<>>) => ILike(row.nome, <<"%">> \o Val(nome) \o <<"%">>)
    /\ cpf # {} => row.cpf = Val(cpf)

\* the name of the joined reference row, "" when there is none
CategoriaNome(row) ==
    LET rel == {c \in Categorias : c.pk_id = row.categoria_id}
    IN  IF rel = {} THEN "" ELSE (CHOOSE c \in rel : TRUE).nome

CentroNome(row) ==
    LET rel == {c \in CentrosTreinamento : c.pk_id = row.centro_treinamento_id}
    IN  IF rel = {} THEN "" ELSE (CHOOSE c \in rel : TRUE).nome

\* AtletaListOut(nome=, categoria=, centro_treinamento=)
AtletaListOut(row) ==
    [nome |-> row.nome, categoria |-> CategoriaNome(row),
     centro_treinamento |-> CentroNome(row)]

\* items = [AtletaListOut(...) for a in atletas]: a bag, item -> number of copies
Items(rows, ids) ==
    LET shown == {AtletaListOut(rows[i]) : i \in ids}
    IN  [it \in shown |-> Cardinality({i \in ids : AtletaListOut(rows[i]) = it})]

\* GET /?nome=&cpf=
Query(nome, cpf) ==
    /\ LET ids == {i \in DOMAIN atletas : Selected(atletas[i], nome, cpf)}
       IN  Respond([op |-> "query", nome |-> nome, cpf |-> cpf, status |-> 200,
                    items |-> Items(atletas, ids)])
    /\ UNCHANGED <<atletas, nextId, clock, tasks>>

\* GET /{id}
Get(id) ==
    /\ LET atleta == FindAtleta(atletas, id)
       IN  IF atleta = {} THEN
               Respond([op |-> "get", id |-> id, status |-> 404, detail |-> id])
           ELSE
               Respond([op |-> "get", id |-> id, status |-> 200,
                        out |-> AtletaOut(id, Val(atleta))])
    /\ UNCHANGED <<atletas, nextId, clock, tasks>>

\* PATCH /{id}, up to the SELECT and the 404
PatchSelect(t, id) ==
    /\ tasks[t] = Idle
    /\ IF FindAtleta(atletas, id) = {} THEN
           /\ Respond([op |-> "patch", id |-> id, status |-> 404, detail |-> id]
                      @@ Exit("open"))
           /\ UNCHANGED tasks
       ELSE
           /\ tasks' = [tasks EXCEPT ![t] = [pc |-> "write", op |-> "patch", id |-> id]]
           /\ Respond(NoResponse)
    /\ UNCHANGED <<atletas, nextId, clock>>

\* PATCH /{id}, from model_dump(exclude_unset=True) to the response.  The
\* body is first read here, so it is drawn here.
PatchCommit(t, data) ==
    /\ tasks[t].pc = "write" /\ tasks[t].op = "patch"
    /\ LET id == tasks[t].id
       IN  IF id \notin DOMAIN atletas THEN
               \* the UPDATE matches no row: the ORM raises an error that is
               \* not an IntegrityError, and nothing catches it
               /\ Respond([op |-> "patch", id |-> id, data |-> data, status |-> 500]
                          @@ Exit("open"))
               /\ UNCHANGED atletas
           ELSE
               LET attempted == [atletas EXCEPT ![id] = SetAttrs(@, data)]
               IN  IF IntegrityError(attempted) THEN
                       /\ atletas' = Rollback(atletas, attempted)
                       /\ Respond([op |-> "patch", id |-> id, data |-> data,
                                   status |-> 303,
                                   detail |-> PatchConflictDetail(data)]
                                  @@ Exit("rolledback"))
                   ELSE
                       /\ atletas' = attempted
                       /\ Respond([op |-> "patch", id |-> id, data |-> data,
                                   status |-> 200,
                                   out |-> AtletaOut(id, attempted[id])]
                                  @@ Exit("committed"))
    /\ tasks' = [tasks EXCEPT ![t] = Idle]
    /\ UNCHANGED <<nextId, clock>>

\* DELETE /{id}, up to the SELECT and the 404
DeleteSelect(t, id) ==
    /\ tasks[t] = Idle
    /\ IF FindAtleta(atletas, id) = {} THEN
           /\ Respond([op |-> "delete", id |-> id, status |-> 404, detail |-> id]
                      @@ Exit("open"))
           /\ UNCHANGED tasks
       ELSE
           /\ tasks' = [tasks EXCEPT ![t] = [pc |-> "write", op |-> "delete", id |-> id]]
           /\ Respond(NoResponse)
    /\ UNCHANGED <<atletas, nextId, clock>>

\* DELETE /{id}: db_session.delete(atleta); commit()
DeleteCommit(t) ==
    /\ tasks[t].pc = "write" /\ tasks[t].op = "delete"
    /\ atletas' = DeleteRow(atletas, tasks[t].id)
    /\ Respond([op |-> "delete", id |-> tasks[t].id, status |-> 204]
               @@ Exit("committed"))
    /\ tasks' = [tasks EXCEPT ![t] = Idle]
    /\ UNCHANGED <<nextId, clock>>

\* the ids a client asks for
Ids == 1..MaxId

Init ==
    /\ atletas = [i \in {} |-> 0]
    /\ nextId = 1
    /\ clock = 0
    /\ tasks = [t \in Tasks |-> Idle]
    /\ last = NoResponse

NextCrud ==
    \/ \E body \in AtletaIn : Post(body)
    \/ \E id \in Ids : Get(id)
    \/ \E t \in Tasks, id \in Ids : PatchSelect(t, id)
    \/ \E t \in Tasks, data \in AtletaUpdate : PatchCommit(t, data)
    \/ \E t \in Tasks, id \in Ids : DeleteSelect(t, id)
    \/ \E t \in Tasks : DeleteCommit(t)

Next ==
    \/ NextCrud
    \/ \E nome \in NomeFilters, cpf \in CpfFilters : Query(nome, cpf)

\* every operation of the router
Spec == Init /\ [][Next]_vars

\* the operations that read or write one athlete; list only reads the table
\* and answers, so leaving it out changes no step of the others
SpecCrud == Init /\ [][NextCrud]_vars
\* ------------------------------------------------------------ properties
WriteOps == {"post", "patch", "delete"}
ErrorStatus == {303, 400, 404, 500}

NamesCategoria(nome) == \E c \in Categorias : c.nome = nome
NamesCentro(nome) == \E c \in CentrosTreinamento : c.nome = nome
CpfTaken(rows, cpf, but) == \E j \in DOMAIN rows \ but : rows[j].cpf = cpf

C2_DuplicateRefused ==
    [][/\ ( /\ last'.op = "post"
            /\ NamesCategoria(last'.body.categoria)
            /\ NamesCentro(last'.body.centro_treinamento)
            /\ CpfTaken(atletas, last'.body.cpf, {}) )
          => /\ last'.status = 303
             /\ last'.detail = last'.body.cpf
             /\ atletas' = atletas
       /\ ( /\ last'.op = "patch"
            /\ last'.id \in DOMAIN atletas
            /\ last'.data.cpf # {}
            /\ CpfTaken(atletas, Val(last'.data.cpf), {last'.id}) )
          => /\ last'.status = 303
             /\ last'.detail = Val(last'.data.cpf)
             /\ atletas' = atletas
      ]_vars

\* a create with resolving names was refused for the CPF of an athlete
C2_Witness ==
    /\ last.op = "post" /\ last.status = 303
    /\ NamesCategoria(last.body.categoria)
    /\ CpfTaken(atletas, last.body.cpf, {})

\* C3: a create whose category name has no row answers 400 naming the
\* category, whatever else it carries; one whose category resolves and whose
\* training-center name has no row answers 400 naming the training center;
\* neither attempts an insert nor changes the athlete table.
C3_ReferenceNotFound ==
    [][last'.op = "post" =>
        /\ ~NamesCategoria(last'.body.categoria) =>
              /\ last'.status = 400
              /\ last'.detail = <<"categoria", last'.body.categoria>>
              /\ last'.tx = "open"
              /\ atletas' = atletas /\ nextId' = nextId
        /\ ( /\ NamesCategoria(last'.body.categoria)
             /\ ~NamesCentro(last'.body.centro_treinamento) ) =>
              /\ last'.status = 400
              /\ last'.detail = <<"centro_treinamento", last'.body.centro_treinamento>>
              /\ last'.tx = "open"
              /\ atletas' = atletas /\ nextId' = nextId
      ]_vars

\* a create with an unknown category and a known training center was refused
\* while an athlete exists
C3_Witness ==
    /\ last.op = "post" /\ last.status = 400
    /\ last.detail[1] = "categoria"
    /\ NamesCentro(last.body.centro_treinamento)
    /\ DOMAIN atletas # {}

\* C4: a successful update sets, on the row with that id, exactly the fields
\* present in the payload to the payload's values; absent fields keep their
\* value and every other row is unchanged.
C4_PartialUpdate ==
    [][(last'.op = "patch" /\ last'.status = 200) =>
        LET id == last'.id
            data == last'.data
        IN  /\ DOMAIN atletas' = DOMAIN atletas
            /\ \A f \in DOMAIN data :
                  atletas'[id][f] = IF data[f] # {} THEN Val(data[f]) ELSE atletas[id][f]
            /\ \A f \in DOMAIN atletas[id] \ DOMAIN data :
                  atletas'[id][f] = atletas[id][f]
            /\ \A j \in DOMAIN atletas \ {id} : atletas'[j] = atletas[j]
      ]_vars

\* an update carrying only a CPF succeeded while another athlete exists
C4_Witness ==
    /\ last.op = "patch" /\ last.status = 200
    /\ last.data.cpf # {} /\ last.data.nome = {} /\ last.data.categoria_id = {}
    /\ Cardinality(DOMAIN atletas) = 2

C6_DeletedStaysDeleted ==
    [][/\ (last'.op = "delete" /\ last'.status = 204) =>
              last'.id \notin DOMAIN atletas'
       /\ \A i \in 1..(nextId - 1) :
              i \notin DOMAIN atletas => i \notin DOMAIN atletas'
       /\ (last'.op = "get" /\ last'.id \notin DOMAIN atletas) =>
              last'.status = 404
       /\ (last'.op \in {"patch", "delete"} /\ last'.status # 404) =>
              \E t \in Tasks : tasks[t].pc = "write" /\ tasks[t].id = last'.id
       /\ \A t \in Tasks :
              (tasks[t] = Idle /\ tasks'[t] # Idle) => tasks'[t].id \in DOMAIN atletas
       /\ (last'.op = "delete" /\ last'.status = 404) => atletas' = atletas
      ]_vars

\* a get of an id that was handed out and deleted answered 404
C6_Witness ==
    /\ last.op = "get" /\ last.status = 404
    /\ last.id < nextId

\* C7: a successful create stores, under the id it returns, the input's
\* fields and the keys of the rows its category and training-center names
\* name; a get returns the stored row; and a row changes only by a successful
\* update of its id and disappears only by a delete of its id.
C7_GetAfterCreate ==
    [][/\ (last'.op = "post" /\ last'.status = 201) =>
            LET id == last'.out.pk_id
                body == last'.body
            IN  /\ id \notin DOMAIN atletas
                /\ DOMAIN atletas' = DOMAIN atletas \cup {id}
                /\ last'.out.row = atletas'[id]
                /\ atletas'[id].nome = body.nome
                /\ atletas'[id].cpf = body.cpf
                /\ \E c \in Categorias :
                      c.nome = body.categoria /\ c.pk_id = atletas'[id].categoria_id
                /\ \E c \in CentrosTreinamento :
                      /\ c.nome = body.centro_treinamento
                      /\ c.pk_id = atletas'[id].centro_treinamento_id
       /\ (last'.op = "get" /\ last'.status = 200) =>
            /\ last'.out.pk_id = last'.id
            /\ last'.out.row = atletas[last'.id]
       /\ \A i \in DOMAIN atletas :
            /\ (i \in DOMAIN atletas' /\ atletas'[i] # atletas[i]) =>
                  (last'.op = "patch" /\ last'.status = 200 /\ last'.id = i)
            /\ i \notin DOMAIN atletas' =>
                  (last'.op = "delete" /\ last'.status = 204 /\ last'.id = i)
      ]_vars

\* a get returned an athlete created in category "RX"
C7_Witness ==
    /\ last.op = "get" /\ last.status = 200
    /\ last.out.row.categoria_id = 2
    /\ last.out.row.created_at = 1

\* text contains part
Contains(text, part) ==
    \E k \in 0..(Len(text) - Len(part)) : SubSeq(text, k + 1, k + Len(part)) = part

\* the row satisfies every filter that is present
C8_Satisfies(row, nome, cpf) ==
    /\ nome # {} => Contains(Lower(row.nome), Lower(Val(nome)))
    /\ cpf # {} => row.cpf = Val(cpf)

\* C8: list returns one projected item for each athlete that satisfies every
\* filter present (name contains the value, ignoring case; CPF equal), for no
\* other athlete, and never changes the table.
C8_ListFilters ==
    [][last'.op = "query" =>
        /\ atletas' = atletas
        /\ last'.items =
              Items(atletas, {i \in DOMAIN atletas :
                                C8_Satisfies(atletas[i], last'.nome, last'.cpf)})
      ]_vars

\* C9: created_at is the server's clock at the create, never the client's
\* value, and no later step changes it.
C9_CreatedAtFixed ==
    [][/\ \A i \in DOMAIN atletas' \ DOMAIN atletas :
            atletas'[i].created_at = clock
       /\ \A i \in DOMAIN atletas' \cap DOMAIN atletas :
            atletas'[i].created_at = atletas[i].created_at
      ]_vars

\* an update carrying every field succeeded on the second athlete created
C9_Witness ==
    /\ last.op = "patch" /\ last.status = 200
    /\ last.data.nome # {} /\ last.data.cpf # {} /\ last.data.categoria_id # {}
    /\ last.out.row.created_at = 1

\* C10: update answers 303 only when its payload carries a CPF that another
\* existing athlete has.
C10_ConflictOnlyForCpf ==
    [][(last'.op = "patch" /\ last'.status = 303) =>
        /\ last'.data.cpf # {}
        /\ CpfTaken(atletas, Val(last'.data.cpf), {last'.id})
      ]_vars
====
